---- MODULE Spec2Model ----
(***************************************************************************)
(* A model of the AV assignment engine of jw-av-scheduler: the             *)
(* availability checker (scheduler/availability.ts), the assignment        *)
(* history and its fairness score (scheduler/history.ts), and the weekly   *)
(* scheduling engine with its priority-brother pass (scheduler/engine.ts). *)
(*                                                                         *)
(* Conventions.  A brother id and a name are strings.  A date              *)
(* "YYYY-MM-DD" is the record [y, m, d]; date.substring(0, 7) is the pair  *)
(* <<y, m>>, and new Date(date) is the day number DayNumber(date).  JS     *)
(* null is Null.  An array is a sequence; a Set<string> is a set.          *)
(***************************************************************************)
EXTENDS Integers, Sequences, FiniteSets, TLC

Null == "null"

(***************************************************************************)
(* config/constraints.ts                                                   *)
(***************************************************************************)
micPositions == {"rightMic", "leftMic"}

allAVPositions ==
  <<"audio", "video", "avAssistant", "rightMic", "leftMic", "frontStage",
    "auditorium", "entrance1", "entrance2">>

restrictionToPositions ==
  [no_audio |-> {"audio"},
   no_video |-> {"video"},
   no_av_assistant |-> {"avAssistant"},
   no_mic |-> {"rightMic", "leftMic"},
   no_frontStage |-> {"frontStage"},
   no_entrance |-> {"entrance1", "entrance2"},
   no_auditorium |-> {"auditorium"},
   mic_once_monthly |-> {}]

privilegedPositions == {"auditorium"}

videoEligibleBrotherIds ==
  {"jayr-sullano", "jared-nieva", "zach-lucero", "john-mahor", "matt-mancuso",
   "dandel-cabusas", "gally-villanueva", "herman-lucero", "abraham-penera"}

priorityBrotherIds == <<"zach-lucero", "john-mahor">>

schedulingPriority ==
  <<"audio", "video", "avAssistant", "rightMic", "leftMic", "frontStage",
    "auditorium", "entrance1", "entrance2">>

Positions == {schedulingPriority[i] : i \in 1..Len(schedulingPriority)}

PriorityIds == {priorityBrotherIds[i] : i \in 1..Len(priorityBrotherIds)}

(***************************************************************************)
(* config/brothers.ts                                                      *)
(***************************************************************************)
Brother(id, fullName, privilege, restrictions) ==
  [id |-> id, fullName |-> fullName, privilege |-> privilege,
   restrictions |-> restrictions, active |-> TRUE]

brothers ==
  <<Brother("jonas-santiso", "Jonas Santiso", "elder", <<>>),
    Brother("dandel-cabusas", "Dandel Cabusas", "elder", <<>>),
    Brother("raffy-mondares", "Raffy Mondares", "elder", <<>>),
    Brother("randy-quinol", "Randy Quinol", "elder", <<>>),
    Brother("matt-mancuso", "Matt Mancuso", "elder", <<>>),
    Brother("melky-basanes", "Melky Basanes", "elder", <<>>),
    Brother("gally-villanueva", "Gally Villanueva", "elder", <<>>),
    Brother("abraham-penera", "Abraham Penera", "elder", <<>>),
    Brother("herman-lucero", "Herman Lucero", "elder", <<>>),
    Brother("edgar-silverio", "Edgar Silverio", "elder", <<>>),
    Brother("jayr-sullano", "Jayr Sullano", "ministerial_servant", <<>>),
    Brother("edmer-sapla", "Edmer Sapla", "ministerial_servant", <<>>),
    Brother("jared-nieva", "Jared Nieva", "ministerial_servant", <<>>),
    Brother("ralph-arugay", "Ralph Arugay", "ministerial_servant", <<>>),
    Brother("zach-lucero", "Zach Lucero", "publisher", <<"no_entrance">>),
    Brother("cezar-macasieb", "Cezar Macasieb", "publisher", <<"no_auditorium">>),
    Brother("john-mahor", "John Mahor", "publisher", <<"no_auditorium">>),
    Brother("xian-salazar", "Xian Salazar", "publisher",
            <<"no_audio", "no_video", "no_av_assistant", "no_entrance",
              "mic_once_monthly">>)>>

BrotherIds == {brothers[i].id : i \in 1..Len(brothers)}

\* Defined for the ids of the roster; a caller tests id \in BrotherIds
\* where the code tests the result against undefined.
BrotherById ==
  [id \in BrotherIds |->
     brothers[CHOOSE i \in 1..Len(brothers) : brothers[i].id = id]]

getBrotherById(id) == BrotherById[id]

getActiveBrothers == SelectSeq(brothers, LAMBDA b : b.active)

(***************************************************************************)
(* scheduler/availability.ts                                               *)
(***************************************************************************)
RestrictionsOf(brother) ==
  {brother.restrictions[i] : i \in 1..Len(brother.restrictions)}

\* A restriction check that lets every brother through.
NoIndividualRestriction(brother, position) == TRUE

canBrotherDoPosition(brother, position) ==
  \A r \in RestrictionsOf(brother) :
    r = "mic_once_monthly" \/ position \notin restrictionToPositions[r]

\* A privilege check that lets every brother through.
EveryPrivilegeQualifies(brother, position) == TRUE

hasBrotherRequiredPrivilege(brother, position) ==
  IF position \notin privilegedPositions
    THEN TRUE
    ELSE brother.privilege = "elder" \/ brother.privilege = "ministerial_servant"

\* The written names of the model are a brother's full name (the direct
\* match) and his id, which contains his first and his last name (the
\* last rule of the function); no written name of one brother of the
\* roster matches another.
doesNameMatchBrother(name, brother) ==
  name = brother.fullName \/ name = brother.id

NoReason == [kind |-> "available", tag |-> ""]

FirstBlockingRestriction(brother, position) ==
  LET blocking ==
        SelectSeq(brother.restrictions,
                  LAMBDA r : r # "mic_once_monthly"
                             /\ position \in restrictionToPositions[r])
  IN blocking[1]

\* A no-AV check that blocks nobody.
NobodyUnavailableForAV(brother, week) == FALSE

\* A no-mic check that blocks nobody.
NobodyUnavailableForMic(brother, week) == FALSE

isUnavailableForAV(brother, week) ==
  \E name \in week.unavailableForAV : doesNameMatchBrother(name, brother)

isUnavailableForMic(brother, week) ==
  \E name \in week.unavailableForMic : doesNameMatchBrother(name, brother)

getUnavailabilityReason(brother, position, week) ==
  IF isUnavailableForAV(brother, week)
    THEN [kind |-> "Has meeting part with no-AV constraint", tag |-> ""]
  ELSE IF position \in micPositions /\ isUnavailableForMic(brother, week)
    THEN [kind |-> "Has meeting part with no-mic constraint", tag |-> ""]
  ELSE IF ~canBrotherDoPosition(brother, position)
    THEN [kind |-> "Individual restriction",
          tag |-> FirstBlockingRestriction(brother, position)]
  ELSE IF ~hasBrotherRequiredPrivilege(brother, position)
    THEN [kind |-> "Position requires Elder or MS privilege", tag |-> ""]
  ELSE IF position = "video" /\ brother.id \notin videoEligibleBrotherIds
    THEN [kind |-> "Video position restricted to specific elders", tag |-> ""]
  ELSE NoReason

\* availableBrothers of the AvailabilityResult, in roster order.
getAvailableBrothersForPosition(position, week) ==
  SelectSeq(getActiveBrothers,
            LAMBDA b : getUnavailabilityReason(b, position, week) = NoReason)

\* The roster is the module's brothers array, here an argument: the array
\* with some of its brothers marked inactive.
isBrotherAvailableForPosition(roster, brotherId, position, week) ==
  LET found == {i \in 1..Len(roster) : roster[i].id = brotherId}
      brother == roster[CHOOSE i \in found : \A j \in found : i <= j]
  IN IF found = {}
       THEN [available |-> FALSE,
             reason |-> [kind |-> "Brother not found", tag |-> ""]]
     ELSE IF ~brother.active
       THEN [available |-> FALSE,
             reason |-> [kind |-> "Brother is inactive", tag |-> ""]]
     ELSE LET reason == getUnavailabilityReason(brother, position, week)
          IN IF reason # NoReason
               THEN [available |-> FALSE, reason |-> reason]
               ELSE [available |-> TRUE, reason |-> NoReason]

IsAvailable(id, position, week) ==
  \E i \in 1..Len(getActiveBrothers) :
    /\ getActiveBrothers[i].id = id
    /\ getUnavailabilityReason(getActiveBrothers[i], position, week) = NoReason

(***************************************************************************)
(* Dates                                                                   *)
(***************************************************************************)
DaysBeforeMonth ==
  <<0, 31, 59, 90, 120, 151, 181, 212, 243, 273, 304, 334>>

\* new Date(date).getTime() in days; the model's dates lie in one
\* non-leap year and its neighbours.
DayNumber(date) == date.y * 365 + DaysBeforeMonth[date.m] + date.d

YearMonth(date) == <<date.y, date.m>>

(***************************************************************************)
(* scheduler/history.ts                                                    *)
(***************************************************************************)
addAssignment(assignments, brotherId, position, date) ==
  Append(assignments,
         [brotherId |-> brotherId, position |-> position, date |-> date])

\* A displacement that leaves the displaced brother's record in the ledger.
KeepAssignment(assignments, brotherId, position, date) == assignments

\* A removal that deletes every record of the brother, role and date.
RemoveEveryMatch(assignments, brotherId, position, date) ==
  SelectSeq(assignments,
            LAMBDA a : ~(/\ a.brotherId = brotherId
                         /\ a.position = position
                         /\ a.date = date))

removeAssignment(assignments, brotherId, position, date) ==
  LET matches ==
        {i \in 1..Len(assignments) :
           /\ assignments[i].brotherId = brotherId
           /\ assignments[i].position = position
           /\ assignments[i].date = date}
  IN IF matches = {}
       THEN assignments
       ELSE LET index == CHOOSE i \in matches : \A j \in matches : i <= j
            IN [k \in 1..(Len(assignments) - 1) |->
                  IF k < index THEN assignments[k] ELSE assignments[k + 1]]

getAssignmentsForMonth(assignments, yearMonth) ==
  SelectSeq(assignments, LAMBDA a : YearMonth(a.date) = yearMonth)

getAssignmentsForBrother(assignments, brotherId) ==
  SelectSeq(assignments, LAMBDA a : a.brotherId = brotherId)

\* A quota check that counts the mic records of every month.
CanXianDoMicAtAll(assignments, yearMonth) ==
  \A i \in 1..Len(assignments) :
    ~(assignments[i].brotherId = "xian-salazar"
      /\ assignments[i].position \in micPositions)

canXianDoMicThisMonth(assignments, yearMonth) ==
  LET monthAssignments == getAssignmentsForMonth(assignments, yearMonth)
      xianMicAssignments ==
        SelectSeq(monthAssignments,
                  LAMBDA a : a.brotherId = "xian-salazar"
                             /\ a.position \in micPositions)
  IN Len(xianMicAssignments) = 0

Max(a, b) == IF a >= b THEN a ELSE b

\* A window that also counts the records dated after the reference date.
WithinDaysOrLater(assignment, referenceDate, days) ==
  DayNumber(referenceDate) - DayNumber(assignment.date) <= days

\* The filter of recentAssignments (days = 30) and lastWeekAssignments
\* (days = 7).
WithinLastDays(assignment, referenceDate, days) ==
  LET diffDays == DayNumber(referenceDate) - DayNumber(assignment.date)
  IN diffDays >= 0 /\ diffDays <= days

\* A scoring that treats every privilege alike.
NoPrivilegeAdjustment(brotherId) == 0

\* The privilege-based part of the score.
PrivilegeAdjustment(brotherId) ==
  LET brother == getBrotherById(brotherId)
  IN IF brotherId \notin BrotherIds THEN 0
     ELSE IF brother.privilege = "elder" THEN 25
     ELSE IF brother.privilege = "ministerial_servant" THEN -25
     ELSE IF brother.privilege = "publisher" THEN -15
     ELSE 0

calculateAssignmentScore(assignments, brotherId, position, referenceDate, meetingPartCount) ==
  LET brotherAssignments == getAssignmentsForBrother(assignments, brotherId)
      positionAssignments ==
        SelectSeq(brotherAssignments, LAMBDA a : a.position = position)
      recentAssignments ==
        SelectSeq(brotherAssignments,
                  LAMBDA a : WithinLastDays(a, referenceDate, 30))
      lastWeekAssignments ==
        SelectSeq(brotherAssignments,
                  LAMBDA a : WithinLastDays(a, referenceDate, 7))
      partPenalty ==
        IF meetingPartCount > 0 THEN 200 + meetingPartCount * 50 ELSE 0
      privilegeAdjustment == PrivilegeAdjustment(brotherId)
      priorityBonus ==
        IF brotherId \in PriorityIds
          THEN Max(15, 50 - Len(positionAssignments) * 15)
          ELSE 0
  IN Len(positionAssignments) * 10
     + Len(recentAssignments) * 5
     + Len(lastWeekAssignments) * 20
     + partPenalty
     + privilegeAdjustment
     - priorityBonus

\* An insertion that puts an element before the elements of equal score.
RECURSIVE InsertBeforeTies(_, _, _)
InsertBeforeTies(sorted, x, scores) ==
  IF sorted = <<>> THEN <<x>>
  ELSE IF scores[x] - scores[sorted[1]] <= 0 THEN <<x>> \o sorted
  ELSE <<sorted[1]>> \o InsertBeforeTies(Tail(sorted), x, scores)

\* Array.prototype.sort is stable: an element goes after every element
\* already placed whose score is not greater than its own.  scores maps
\* each id of the list to its calculateAssignmentScore.
RECURSIVE InsertByScore(_, _, _)
InsertByScore(sorted, x, scores) ==
  IF sorted = <<>> THEN <<x>>
  ELSE IF scores[x] - scores[sorted[1]] < 0 THEN <<x>> \o sorted
  ELSE <<sorted[1]>> \o InsertByScore(Tail(sorted), x, scores)

RECURSIVE SortByScore(_, _)
SortByScore(ids, scores) ==
  IF ids = <<>> THEN <<>>
  ELSE InsertByScore(SortByScore(SubSeq(ids, 1, Len(ids) - 1), scores),
                     ids[Len(ids)], scores)

\* A sort that leaves the list in the order it was given.
KeepCandidateOrder(brotherIds, assignments, position, referenceDate, meetingPartCounts) == brotherIds

sortBrothersByFairness(brotherIds, assignments, position, referenceDate, meetingPartCounts) ==
  SortByScore(brotherIds,
              [id \in {brotherIds[i] : i \in 1..Len(brotherIds)} |->
                 calculateAssignmentScore(assignments, id, position,
                                          referenceDate, meetingPartCounts[id])])

\* A score that narrows history.assignments to the brother's records in
\* place.
historyNarrowedToBrother(assignments, brotherId) ==
  getAssignmentsForBrother(assignments, brotherId)

\* history.assignments after calculateAssignmentScore: the function reads
\* it through filter(), which builds new arrays, and writes nothing.
historyAfterScore(assignments, brotherId) == assignments

\* history.assignments after sortBrothersByFairness: the comparator scores
\* the members of the copied list.
RECURSIVE historyAfterScores(_, _)
historyAfterScores(assignments, brotherIds) ==
  IF brotherIds = <<>> THEN assignments
  ELSE historyAfterScores(historyAfterScore(assignments, Head(brotherIds)),
                          Tail(brotherIds))

historyAfterSort(assignments, brotherIds) ==
  IF Len(brotherIds) < 2 THEN assignments
  ELSE historyAfterScores(assignments, brotherIds)

(***************************************************************************)
(* scheduler/engine.ts                                                     *)
(***************************************************************************)
VARIABLES
  weeks,            \* scheduleMultipleWeeks' weeks: WeeklyMeetingData[]
  options,          \* scheduleMultipleWeeks' options
  history,          \* history.assignments
  pc,               \* where the batch is: "idle", "greedy", "guarantee", "built"
  weekNo,           \* index in weeks of the week being scheduled
  assignments,      \* scheduleWeek's assignments record
  assignedThisWeek, \* scheduleWeek's assignedThisWeek set
  conflicts,        \* scheduleWeek's conflicts, as the positions named
  warnings,         \* scheduleWeek's warnings, as the positions named
  posIdx,           \* the greedy loop's index into schedulingPriority
  prioIdx,          \* the priority loop's index into priorityBrotherIds
  results,          \* scheduleMultipleWeeks' results
  call,             \* a direct call of an exported function: its arguments
  ret,              \* what the call returned
  roleTally         \* per role, this week: visits of the greedy loop and
                    \* changes of occupant made by the guarantee pass

vars ==
  <<weeks, options, history, pc, weekNo, assignments, assignedThisWeek,
    conflicts, warnings, posIdx, prioIdx, results, call, ret, roleTally>>

\* A batch that hands its first week to every scheduleWeek call.
firstWeek == weeks[1]

\* The week of the current scheduleWeek call.
week == weeks[weekNo]

\* The first brother of the roster the name matches.
getBrotherByName(name) ==
  LET hits == {i \in 1..Len(brothers) : doesNameMatchBrother(name, brothers[i])}
  IN brothers[CHOOSE i \in hits : \A j \in hits : i <= j]

\* week.parts lists midweekParts and weekendParts by their assignedBrother:
\* the number of parts of each name that has any.  The names of the model
\* are one per brother, so a brother's count is that of his name.
\* meetingPartCounts[id] is meetingPartCounts.get(id) || 0.
meetingPartCounts ==
  LET byId == {<<getBrotherByName(n).id, week.parts[n]>> : n \in DOMAIN week.parts}
  IN [id \in BrotherIds |->
        IF \E e \in byId : e[1] = id
          THEN (CHOOSE e \in byId : e[1] = id)[2]
          ELSE 0]

Ids(brotherSeq) == [i \in 1..Len(brotherSeq) |-> brotherSeq[i].id]

Range(seq) == {seq[i] : i \in 1..Len(seq)}

\* The available brothers, whether assigned this week or not.
CandidatesAssignedOrNot(position) ==
  Ids(getAvailableBrothersForPosition(position, week))

\* candidates after the filter on assignedThisWeek
Candidates(position) ==
  SelectSeq(Ids(getAvailableBrothersForPosition(position, week)),
            LAMBDA id : id \notin assignedThisWeek)

XianExcluded(position) ==
  /\ position \in micPositions
  /\ "xian-salazar" \in Range(Candidates(position))
  /\ ~canXianDoMicThisMonth(history, YearMonth(week.weekOf))

AfterQuota(position) ==
  IF XianExcluded(position)
    THEN SelectSeq(Candidates(position), LAMBDA id : id # "xian-salazar")
    ELSE Candidates(position)

\* A greedy pass that ignores preferredAudioVideo.
WithoutNarrowing(position) == AfterQuota(position)

AfterPreference(position) ==
  LET preferred ==
        SelectSeq(AfterQuota(position),
                  LAMBDA id : id \in options.preferredAudioVideo)
  IN IF position \in {"audio", "video"}
        /\ options.preferredAudioVideo # {}
        /\ Len(preferred) > 0
       THEN preferred
       ELSE AfterQuota(position)

SortedCandidates(position) ==
  sortBrothersByFairness(AfterPreference(position), history, position,
                         week.weekOf, meetingPartCounts)

(***************************************************************************)
(* Inputs of the model                                                     *)
(***************************************************************************)
MaxParts == 1
MaxWeeks == 2
MaxCalls == 2

FullNames(ids) == {BrotherById[id].fullName : id \in ids}

Date(y, m, d) == [y |-> y, m |-> m, d |-> d]

Week(weekOf, awayIds, noMicIds, parts) ==
  [weekOf |-> weekOf, unavailableForAV |-> FullNames(awayIds),
   unavailableForMic |-> FullNames(noMicIds), parts |-> parts]

\* The Fridays of consecutive weeks, across the end of a month.
WeekDates ==
  <<Date(2026, 2, 20), Date(2026, 2, 27), Date(2026, 3, 6), Date(2026, 3, 13)>>

\* The brothers still available in a week most of the roster is away.
FewPresent ==
  {"zach-lucero", "john-mahor", "xian-salazar", "jayr-sullano", "edmer-sapla"}

\* Who is unavailable for AV: nobody, one brother, or all but a few.
AwayChoices ==
  {{}, {"zach-lucero"}, {"cezar-macasieb"},
   BrotherIds \ FewPresent,
   BrotherIds \ {"jonas-santiso", "edmer-sapla"},
   BrotherIds \ {"jonas-santiso", "zach-lucero"}}

NoMicChoices == {{}, {"zach-lucero"}, {"cezar-macasieb"}}

\* Who has meeting parts: nobody, the first priority brother, or both,
\* each with the same number of parts.
PartChoices ==
  {<<>>}
  \cup {[name \in FullNames({"zach-lucero"}) |-> k] : k \in 1..MaxParts}
  \cup {[name \in FullNames(PriorityIds) |-> k] : k \in 1..MaxParts}

NoForce == [p \in Positions |-> Null]

DefaultOptions ==
  [skipPositions |-> {}, forceAssignments |-> NoForce,
   preferredAudioVideo |-> {}]

OptionChoices ==
  {DefaultOptions,
   [DefaultOptions EXCEPT !.skipPositions = Positions \ {"auditorium"}],
   [DefaultOptions EXCEPT
      !.forceAssignments = [NoForce EXCEPT !["rightMic"] = "cezar-macasieb"]],
   [DefaultOptions EXCEPT
      !.forceAssignments = [NoForce EXCEPT !["rightMic"] = "cezar-macasieb",
                                           !["auditorium"] = "cezar-macasieb"]],
   [DefaultOptions EXCEPT
      !.forceAssignments = [NoForce EXCEPT !["audio"] = "zach-lucero"]],
   [DefaultOptions EXCEPT
      !.skipPositions = Positions \ {"audio", "avAssistant"},
      !.preferredAudioVideo = {"jonas-santiso"}],
   [DefaultOptions EXCEPT
      !.preferredAudioVideo = {"jayr-sullano", "jonas-santiso"}]}

Record(brotherId, position, date) ==
  [brotherId |-> brotherId, position |-> position, date |-> date]

\* A ledger of earlier runs: records older than 30 days, within 30 days,
\* 7 days before the first week, and of a later week.
PriorRecords ==
  <<Record("zach-lucero", "audio", Date(2026, 1, 9)),
    Record("zach-lucero", "audio", Date(2026, 2, 6)),
    Record("xian-salazar", "rightMic", Date(2026, 2, 13)),
    Record("zach-lucero", "audio", Date(2026, 2, 13)),
    Record("zach-lucero", "audio", Date(2026, 3, 6))>>

HistoryChoices == {<<>>, PriorRecords}

\* The Fridays of seventeen consecutive weeks before the model's weeks.
EarlierFridays ==
  <<Date(2025, 10, 3), Date(2025, 10, 10), Date(2025, 10, 17),
    Date(2025, 10, 24), Date(2025, 10, 31), Date(2025, 11, 7),
    Date(2025, 11, 14), Date(2025, 11, 21), Date(2025, 11, 28),
    Date(2025, 12, 5), Date(2025, 12, 12), Date(2025, 12, 19),
    Date(2025, 12, 26), Date(2026, 1, 2), Date(2026, 1, 9),
    Date(2026, 1, 16), Date(2026, 1, 23)>>

\* The ledger after a season in which one elder ran audio every week.
LongLedger ==
  [i \in 1..Len(EarlierFridays) |->
     Record("jonas-santiso", "audio", EarlierFridays[i])]

\* Weeks scheduled on the long ledger: everybody available, or only that
\* elder and the first priority brother.
LongLedgerWeeks ==
  {<<Week(WeekDates[1], away, {}, parts)>> :
     away \in {{}, BrotherIds \ {"jonas-santiso", "zach-lucero"}},
     parts \in PartChoices}

\* One call of scheduleWeek.
SingleWeeks ==
  {<<Week(weekOf, away, noMic, parts)>> :
     weekOf \in {WeekDates[1], WeekDates[3]}, away \in AwayChoices,
     noMic \in NoMicChoices, parts \in PartChoices}

\* A batch of scheduleMultipleWeeks: consecutive weeks, each with everybody
\* or only a few available.
BatchWeeks(weekOf) ==
  {Week(weekOf, away, noMic, parts) :
     away \in {{}, BrotherIds \ FewPresent},
     noMic \in {{}, {"zach-lucero"}},
     parts \in {<<>>} \cup {[name \in FullNames({"zach-lucero"}) |-> 1]}}

RECURSIVE BatchesFrom(_, _)
BatchesFrom(first, n) ==
  IF n = 0 THEN {<<>>}
  ELSE {<<w>> \o rest : w \in BatchWeeks(WeekDates[first]),
                         rest \in BatchesFrom(first + 1, n - 1)}

Batches ==
  UNION {BatchesFrom(first, n) : first \in 1..2, n \in 1..MaxWeeks}

NoCall == [fn |-> "none"]

NoRet == [kind |-> "none"]

\* A validator that lets an unfilled role pass.
ErrorsOfFilledRolesOnly(schedule, position, assignedBrothers) == <<>>

\* validateSchedule: the errors one entry of schedule.assignments adds.
\* noAV and noMic hold the week's names as parsed; includes() compares the
\* id in the map with them as strings.
ErrorsAt(schedule, position, assignedBrothers) ==
  LET brotherId == schedule.assignments[position]
  IN IF brotherId = Null
       THEN <<[kind |-> "is not assigned", position |-> position,
               brotherId |-> Null]>>
     ELSE (IF brotherId \in assignedBrothers
             THEN <<[kind |-> "is assigned to multiple positions",
                     position |-> position, brotherId |-> brotherId]>>
             ELSE <<>>)
          \o (IF brotherId \in schedule.unavailable.noAV
                THEN <<[kind |-> "is unavailable for AV but assigned",
                        position |-> position, brotherId |-> brotherId]>>
                ELSE <<>>)
          \o (IF position \in micPositions
                 /\ brotherId \in schedule.unavailable.noMic
                THEN <<[kind |-> "is unavailable for mic but assigned",
                        position |-> position, brotherId |-> brotherId]>>
                ELSE <<>>)

\* The loop over Object.entries(schedule.assignments), from the i-th entry.
RECURSIVE ValidateFrom(_, _, _)
ValidateFrom(schedule, i, assignedBrothers) ==
  IF i > Len(allAVPositions) THEN <<>>
  ELSE LET position == allAVPositions[i]
           brotherId == schedule.assignments[position]
       IN ErrorsAt(schedule, position, assignedBrothers)
          \o ValidateFrom(schedule, i + 1,
                          IF brotherId = Null THEN assignedBrothers
                          ELSE assignedBrothers \cup {brotherId})

validateSchedule(schedule) == ValidateFrom(schedule, 1, {})

\* The roster with some brothers marked inactive.
RosterWith(inactiveIds) ==
  [i \in 1..Len(brothers) |->
     [brothers[i] EXCEPT !.active = brothers[i].id \notin inactiveIds]]

\* Direct calls of isBrotherAvailableForPosition.
AvailabilityCalls ==
  {[fn |-> "isBrotherAvailableForPosition", ledger |-> <<>>,
    roster |-> RosterWith(inactive), brotherId |-> id,
    position |-> position,
    week |-> Week(WeekDates[1], away, noMic, <<>>)] :
     inactive \in {{}, {"zach-lucero"}, {"cezar-macasieb"}},
     id \in BrotherIds \cup {"visitor"}, position \in Positions,
     away \in {{}, {"zach-lucero"}, {"cezar-macasieb"}},
     noMic \in NoMicChoices}

\* A role map with every role filled that breaks none of the rules.
FullMap ==
  [audio |-> "zach-lucero", video |-> "john-mahor",
   avAssistant |-> "jayr-sullano", rightMic |-> "edmer-sapla",
   leftMic |-> "jared-nieva", frontStage |-> "ralph-arugay",
   auditorium |-> "jonas-santiso", entrance1 |-> "cezar-macasieb",
   entrance2 |-> "dandel-cabusas"]

\* FullMap with up to two roles emptied, given to somebody who has a role
\* already, or given to a brother without one (an elder outside the video
\* subset, a publisher).
EditedMaps ==
  {[FullMap EXCEPT ![p] = IF v = "same" THEN @ ELSE v,
                    ![q] = IF w = "same" THEN @ ELSE w] :
     p \in {"video", "rightMic"}, q \in {"auditorium", "entrance1"},
     v \in {"same", Null, "zach-lucero", "raffy-mondares"},
     w \in {"same", Null, "jonas-santiso", "xian-salazar"}}

\* Direct calls of validateSchedule: the names of the week as the parser
\* gives them (full names) or as ids.
ValidateCalls ==
  {[fn |-> "validateSchedule", ledger |-> <<>>,
    schedule |-> [weekOf |-> WeekDates[1], assignments |-> roleMap,
                  unavailable |-> [noAV |-> noAV, noMic |-> noMic],
                  conflicts |-> <<>>]] :
     roleMap \in EditedMaps,
     noAV \in {{}, {"Zach Lucero"}, {"zach-lucero"}},
     noMic \in {{}, {"Edmer Sapla"}, {"edmer-sapla"}}}

\* Direct calls of calculateAssignmentScore.
ScoreCalls ==
  {[fn |-> "calculateAssignmentScore", ledger |-> ledger, brotherId |-> id,
    position |-> position, referenceDate |-> date, meetingPartCount |-> n] :
     ledger \in HistoryChoices,
     id \in {"zach-lucero", "xian-salazar", "jonas-santiso", "visitor"},
     position \in {"audio", "rightMic", "auditorium"},
     date \in Range(WeekDates), n \in 0..MaxParts}

\* Direct calls of sortBrothersByFairness.
SortCalls ==
  {[fn |-> "sortBrothersByFairness", ledger |-> ledger, brotherIds |-> ids,
    position |-> position, referenceDate |-> date,
    meetingPartCounts |-> [id \in BrotherIds |->
                             IF id = "jonas-santiso" THEN n ELSE 0]] :
     ledger \in HistoryChoices,
     ids \in {<<>>, <<"zach-lucero">>,
              <<"zach-lucero", "xian-salazar", "jonas-santiso">>,
              <<"jonas-santiso", "john-mahor", "zach-lucero", "edmer-sapla">>},
     position \in {"audio", "rightMic", "auditorium"},
     date \in Range(WeekDates), n \in 0..MaxParts}

Calls == AvailabilityCalls \cup ValidateCalls \cup ScoreCalls \cup SortCalls

NoTally ==
  [visits |-> [p \in Positions |-> 0], changes |-> [p \in Positions |-> 0]]

Start ==
  /\ pc = "idle"
  /\ roleTally = NoTally
  /\ weekNo = 0
  /\ assignments = NoForce
  /\ assignedThisWeek = {}
  /\ conflicts = <<>>
  /\ warnings = <<>>
  /\ posIdx = 0
  /\ prioIdx = 0
  /\ results = <<>>

\* A week in which a publisher who ran audio the week before is put at
\* audio again by a manual override.
OverrideAfterLastWeek ==
  [weeks |-> {<<Week(WeekDates[1], {}, noMic, parts)>> :
                noMic \in NoMicChoices, parts \in PartChoices},
   options |-> [DefaultOptions EXCEPT
                  !.forceAssignments =
                     [NoForce EXCEPT !["audio"] = "cezar-macasieb"]],
   history |-> <<Record("cezar-macasieb", "audio", Date(2026, 2, 13))>>]

\* A week scheduled over a ledger that already holds a record of that week,
\* as when the week is scheduled a second time, and a microphone record of
\* the week before.
WeekScheduledBefore ==
  [weeks |-> {<<Week(WeekDates[1], BrotherIds \ FewPresent, noMic, parts)>> :
                noMic \in NoMicChoices, parts \in PartChoices},
   options |-> DefaultOptions,
   history |-> <<Record("xian-salazar", "frontStage", WeekDates[1]),
                 Record("xian-salazar", "rightMic", Date(2026, 2, 13))>>]

Init ==
  /\ \/ /\ weeks \in SingleWeeks
        /\ options \in OptionChoices
        /\ history \in HistoryChoices
     \/ /\ weeks \in LongLedgerWeeks
        /\ options = DefaultOptions
        /\ history = LongLedger
     \/ /\ weeks \in OverrideAfterLastWeek.weeks
        /\ options = OverrideAfterLastWeek.options
        /\ history = OverrideAfterLastWeek.history
     \/ /\ weeks \in WeekScheduledBefore.weeks
        /\ options = WeekScheduledBefore.options
        /\ history = WeekScheduledBefore.history
  /\ Start
  /\ call = NoCall
  /\ ret = NoRet

\* scheduleMultipleWeeks takes the next week and calls scheduleWeek, which
\* applies the forced assignments.
BeginWeek ==
  /\ pc = "idle"
  /\ weekNo < Len(weeks)
  /\ weekNo' = weekNo + 1
  /\ assignments' = options.forceAssignments
  /\ assignedThisWeek' =
       {options.forceAssignments[p] : p \in Positions} \ {Null}
  /\ conflicts' = <<>>
  /\ warnings' = <<>>
  /\ posIdx' = 1
  /\ prioIdx' = 1
  /\ pc' = "greedy"
  /\ roleTally' = NoTally
  /\ UNCHANGED <<weeks, options, history, results, call, ret>>

\* One iteration of the loop over schedulingPriority.
GreedyStep ==
  /\ pc = "greedy"
  /\ posIdx <= Len(schedulingPriority)
  /\ LET position == schedulingPriority[posIdx]
         skipped == assignments[position] # Null
                    \/ position \in options.skipPositions
         sorted == SortedCandidates(position)
     IN /\ warnings' = IF ~skipped /\ XianExcluded(position)
                         THEN Append(warnings, position) ELSE warnings
        /\ IF skipped
             THEN UNCHANGED <<assignments, assignedThisWeek, history, conflicts>>
           ELSE IF Len(sorted) = 0
             THEN /\ conflicts' = Append(conflicts, position)
                  /\ UNCHANGED <<assignments, assignedThisWeek, history>>
           ELSE /\ assignments' = [assignments EXCEPT ![position] = sorted[1]]
                /\ assignedThisWeek' = assignedThisWeek \cup {sorted[1]}
                /\ history' = addAssignment(history, sorted[1], position,
                                            week.weekOf)
                /\ UNCHANGED conflicts
  /\ posIdx' = posIdx + 1
  /\ pc' = IF posIdx = Len(schedulingPriority) THEN "guarantee" ELSE "greedy"
  /\ roleTally' =
       [roleTally EXCEPT !.visits[schedulingPriority[posIdx]] = @ + 1]
  /\ UNCHANGED <<weeks, options, weekNo, prioIdx, results, call, ret>>

\* A guarantee pass that takes the priority brother as eligible everywhere.
EligibleEverywhere(priorityId) == schedulingPriority

\* The positions the priority brother is eligible for, in priority order.
EligiblePositions(priorityId) ==
  SelectSeq(schedulingPriority,
            LAMBDA pos : priorityId
                           \in Range(Ids(getAvailableBrothersForPosition(pos, week))))

\* A selection that keeps the position whose holder has the lowest score.
RECURSIVE LowestSwap(_, _, _, _)
LowestSwap(eligiblePositions, i, bestSwapPos, bestSwapScore) ==
  IF i > Len(eligiblePositions) THEN bestSwapPos
  ELSE LET pos == eligiblePositions[i]
           currentHolder == assignments[pos]
           holderScore ==
             calculateAssignmentScore(history, currentHolder, pos,
                                      week.weekOf, 0)
       IN IF currentHolder = Null \/ currentHolder \in PriorityIds
            THEN LowestSwap(eligiblePositions, i + 1, bestSwapPos, bestSwapScore)
          ELSE IF bestSwapPos = Null \/ holderScore < bestSwapScore
            THEN LowestSwap(eligiblePositions, i + 1, pos, holderScore)
          ELSE LowestSwap(eligiblePositions, i + 1, bestSwapPos, bestSwapScore)

\* The loop over eligiblePositions from index i on: bestSwapPos is Null while
\* bestSwapScore is -Infinity, which every holder's score exceeds.
RECURSIVE BestSwap(_, _, _, _)
BestSwap(eligiblePositions, i, bestSwapPos, bestSwapScore) ==
  IF i > Len(eligiblePositions) THEN bestSwapPos
  ELSE LET pos == eligiblePositions[i]
           currentHolder == assignments[pos]
           holderScore ==
             calculateAssignmentScore(history, currentHolder, pos,
                                      week.weekOf, 0)
       IN IF currentHolder = Null \/ currentHolder \in PriorityIds
            THEN BestSwap(eligiblePositions, i + 1, bestSwapPos, bestSwapScore)
          ELSE IF bestSwapPos = Null \/ holderScore > bestSwapScore
            THEN BestSwap(eligiblePositions, i + 1, pos, holderScore)
          ELSE BestSwap(eligiblePositions, i + 1, bestSwapPos, bestSwapScore)

\* A re-housing loop that scans schedulingPriority from its first entry.
RECURSIVE ReHouseInPriorityOrder(_, _, _)
ReHouseInPriorityOrder(displaced, i, st) ==
  IF i < 1 THEN st
  ELSE LET fallbackPos ==
             schedulingPriority[Len(schedulingPriority) + 1 - i]
       IN IF st.assignments[fallbackPos] # Null
             /\ st.assignments[fallbackPos] \in st.assignedThisWeek
            THEN ReHouseInPriorityOrder(displaced, i - 1, st)
          ELSE IF displaced \in st.assignedThisWeek
            THEN st
          ELSE IF IsAvailable(displaced, fallbackPos, week)
                  /\ st.assignments[fallbackPos] = Null
            THEN ReHouseInPriorityOrder(displaced, i - 1,
                   [assignments |->
                      [st.assignments EXCEPT ![fallbackPos] = displaced],
                    assignedThisWeek |-> st.assignedThisWeek \cup {displaced},
                    history |-> addAssignment(st.history, displaced,
                                              fallbackPos, week.weekOf)])
          ELSE ReHouseInPriorityOrder(displaced, i - 1, st)

\* The loop over [...schedulingPriority].reverse() from index i down, on
\* st = [assignments, assignedThisWeek, history].
RECURSIVE ReHouse(_, _, _)
ReHouse(displaced, i, st) ==
  IF i < 1 THEN st
  ELSE LET fallbackPos == schedulingPriority[i]
       IN IF st.assignments[fallbackPos] # Null
             /\ st.assignments[fallbackPos] \in st.assignedThisWeek
            THEN ReHouse(displaced, i - 1, st)
          ELSE IF displaced \in st.assignedThisWeek
            THEN st
          ELSE IF IsAvailable(displaced, fallbackPos, week)
                  /\ st.assignments[fallbackPos] = Null
            THEN ReHouse(displaced, i - 1,
                   [assignments |->
                      [st.assignments EXCEPT ![fallbackPos] = displaced],
                    assignedThisWeek |-> st.assignedThisWeek \cup {displaced},
                    history |-> addAssignment(st.history, displaced,
                                              fallbackPos, week.weekOf)])
          ELSE ReHouse(displaced, i - 1, st)

\* The state after the swap of priorityId into bestSwapPos and the attempt
\* to reassign the displaced brother.
Swap(priorityId, bestSwapPos) ==
  LET displaced == assignments[bestSwapPos]
      swapped ==
        [assignments |-> [assignments EXCEPT ![bestSwapPos] = priorityId],
         assignedThisWeek |->
           (assignedThisWeek \ {displaced}) \cup {priorityId},
         history |->
           addAssignment(
             removeAssignment(history, displaced, bestSwapPos, week.weekOf),
             priorityId, bestSwapPos, week.weekOf)]
  IN ReHouse(displaced, Len(schedulingPriority), swapped)

\* One iteration of the loop over priorityBrotherIds.
GuaranteeStep ==
  /\ pc = "guarantee"
  /\ prioIdx <= Len(priorityBrotherIds)
  /\ LET priorityId == priorityBrotherIds[prioIdx]
         eligiblePositions == EligiblePositions(priorityId)
         bestSwapPos == BestSwap(eligiblePositions, 1, Null, 0)
     IN IF priorityId \in assignedThisWeek
           \/ Len(eligiblePositions) = 0
           \/ bestSwapPos = Null
          THEN UNCHANGED <<assignments, assignedThisWeek, history>>
          ELSE LET st == Swap(priorityId, bestSwapPos)
               IN /\ assignments' = st.assignments
                  /\ assignedThisWeek' = st.assignedThisWeek
                  /\ history' = st.history
  /\ roleTally' =
       [roleTally EXCEPT
          !.changes = [p \in Positions |->
                         IF assignments'[p] # assignments[p]
                           THEN @[p] + 1 ELSE @[p]]]
  /\ prioIdx' = prioIdx + 1
  /\ pc' = IF prioIdx = Len(priorityBrotherIds) THEN "built" ELSE "guarantee"
  /\ UNCHANGED <<weeks, options, weekNo, conflicts, warnings, posIdx, results,
                 call, ret>>

\* scheduleWeek builds and returns its result; scheduleMultipleWeeks pushes it.
ReturnWeek ==
  /\ pc = "built"
  /\ results' =
       Append(results,
              [schedule |->
                 [weekOf |-> week.weekOf,
                  assignments |-> assignments,
                  unavailable |-> [noAV |-> week.unavailableForAV,
                                   noMic |-> week.unavailableForMic],
                  conflicts |-> conflicts],
               conflicts |-> conflicts,
               warnings |-> warnings])
  /\ pc' = "idle"
  /\ UNCHANGED <<weeks, options, weekNo, history, assignments,
                 assignedThisWeek, conflicts, warnings, posIdx, prioIdx,
                 call, ret, roleTally>>

Next == BeginWeek \/ GreedyStep \/ GuaranteeStep \/ ReturnWeek

Spec == Init /\ [][Next]_vars

\* A batch of several weeks through one history, with the default options.
BatchInit ==
  /\ weeks \in Batches
  /\ options = DefaultOptions
  /\ history = <<>>
  /\ Start
  /\ call = NoCall
  /\ ret = NoRet

BatchSpec == BatchInit /\ [][Next]_vars

(***************************************************************************)
(* Direct calls of the exported functions                                  *)
(***************************************************************************)
CallInit ==
  /\ call \in Calls
  /\ history = call.ledger
  /\ ret = NoRet
  /\ weeks = <<>>
  /\ options = DefaultOptions
  /\ Start

Frame ==
  UNCHANGED <<weeks, options, pc, weekNo, assignments, assignedThisWeek,
              conflicts, warnings, posIdx, prioIdx, results, call, roleTally>>

CallIsBrotherAvailable ==
  /\ call.fn = "isBrotherAvailableForPosition"
  /\ ret' = [kind |-> "availability",
             value |-> isBrotherAvailableForPosition(
                         call.roster, call.brotherId, call.position, call.week)]
  /\ UNCHANGED history
  /\ Frame

CallValidateSchedule ==
  /\ call.fn = "validateSchedule"
  /\ ret' = [kind |-> "errors", value |-> validateSchedule(call.schedule)]
  /\ UNCHANGED history
  /\ Frame

\* How often the function has been called so far.
CallsSoFar == IF ret.kind = "none" THEN 0 ELSE ret.calls

\* calculateAssignmentScore called, once more, with the same arguments.
CallScore ==
  /\ call.fn = "calculateAssignmentScore"
  /\ CallsSoFar < MaxCalls
  /\ ret' = [kind |-> "score",
             value |-> calculateAssignmentScore(
                         history, call.brotherId, call.position,
                         call.referenceDate, call.meetingPartCount),
             calls |-> CallsSoFar + 1]
  /\ history' = historyAfterScore(history, call.brotherId)
  /\ Frame

\* sortBrothersByFairness called, once more, with the same arguments.
CallSort ==
  /\ call.fn = "sortBrothersByFairness"
  /\ CallsSoFar < MaxCalls
  /\ ret' = [kind |-> "sorted",
             value |-> sortBrothersByFairness(
                         call.brotherIds, history, call.position,
                         call.referenceDate, call.meetingPartCounts),
             calls |-> CallsSoFar + 1]
  /\ history' = historyAfterSort(history, call.brotherIds)
  /\ Frame

CallNext ==
  CallIsBrotherAvailable \/ CallValidateSchedule \/ CallScore \/ CallSort

CallSpec == CallInit /\ [][CallNext]_vars

(***************************************************************************)
(* scheduler/generator.ts: generateMonthlySchedule                         *)
(***************************************************************************)
clearMonthHistory(ledger, yearMonth) ==
  SelectSeq(ledger, LAMBDA a : YearMonth(a.date) # yearMonth)

\* What loadScheduleFromFile returns when the month has no schedule file.
NoScheduleFile == [exists |-> FALSE]

\* The locked weeks of the schedule file, in the order of the file; none
\* when there is no file.
lockedWeeks(existingSchedule) ==
  IF ~existingSchedule.exists THEN <<>>
  ELSE SelectSeq(existingSchedule.weeks, LAMBDA w : w.locked)

\* Array.prototype.sort by weekOf: a schedule goes after every schedule
\* already placed whose week is not later than its own.
RECURSIVE InsertByWeekOf(_, _)
InsertByWeekOf(sorted, x) ==
  IF sorted = <<>> THEN <<x>>
  ELSE IF DayNumber(x.weekOf) < DayNumber(sorted[1].weekOf)
    THEN <<x>> \o sorted
  ELSE <<sorted[1]>> \o InsertByWeekOf(Tail(sorted), x)

RECURSIVE SortByWeekOf(_)
SortByWeekOf(schedules) ==
  IF schedules = <<>> THEN <<>>
  ELSE InsertByWeekOf(
         SortByWeekOf(SubSeq(schedules, 1, Len(schedules) - 1)),
         schedules[Len(schedules)])

\* A week of the schedule file with its locked flag.
WithLock(schedule, locked) ==
  [weekOf |-> schedule.weekOf, assignments |-> schedule.assignments,
   unavailable |-> schedule.unavailable, conflicts |-> schedule.conflicts,
   locked |-> locked]

\* Two ministerial servants and a publisher, without whom a microphone
\* goes to Xian Salazar.
ThreeAway == {"jared-nieva", "ralph-arugay", "cezar-macasieb"}

\* A week as parsed from the PDFs: everybody available, only a few, or
\* three brothers away.
MonthWeeks(weekOf) ==
  {Week(weekOf, away, noMic, <<>>) :
     away \in {{}, BrotherIds \ FewPresent, ThreeAway},
     noMic \in {{}, {"zach-lucero"}}}

\* What the two PDFs give: two weeks of February 2026 and one of March.
ParsedWeeks ==
  {<<first, second, Week(WeekDates[3], {}, {}, <<>>)>> :
     first \in MonthWeeks(WeekDates[1]), second \in MonthWeeks(WeekDates[2])}

\* Calls of generateMonthlySchedule for February 2026 with no schedule file
\* yet, without special dates, week notes, skipped or manual weeks.
MonthCalls ==
  {[fn |-> "generateMonthlySchedule", month |-> YearMonth(WeekDates[1]),
    parsed |-> parsed, preview |-> preview, existingSchedule |-> NoScheduleFile] :
     parsed \in ParsedWeeks, preview \in BOOLEAN}

\* generateMonthlySchedule is called; history is what the history file holds.
MonthInit ==
  /\ call \in MonthCalls
  /\ history \in HistoryChoices
  /\ options = DefaultOptions
  /\ weeks = <<>>
  /\ pc = "generate"
  /\ roleTally = NoTally
  /\ weekNo = 0
  /\ assignments = NoForce
  /\ assignedThisWeek = {}
  /\ conflicts = <<>>
  /\ warnings = <<>>
  /\ posIdx = 0
  /\ prioIdx = 0
  /\ results = <<>>
  /\ ret = NoRet

\* generateMonthlySchedule up to its call of scheduleMultipleWeeks: the
\* weeks of the month that are not locked, and the history without the
\* month's records.
ScheduleMonth ==
  /\ pc = "generate"
  /\ LET locked == lockedWeeks(call.existingSchedule)
         monthWeeks ==
           SelectSeq(call.parsed, LAMBDA w : YearMonth(w.weekOf) = call.month)
         weeksToSchedule ==
           SelectSeq(monthWeeks,
                     LAMBDA w : \A i \in 1..Len(locked) :
                                  locked[i].weekOf # w.weekOf)
     IN weeks' = weeksToSchedule
  /\ history' = clearMonthHistory(history, call.month)
  /\ pc' = "idle"
  /\ UNCHANGED <<options, weekNo, assignments, assignedThisWeek, conflicts,
                 warnings, posIdx, prioIdx, results, call, ret, roleTally>>

\* generateMonthlySchedule after scheduleMultipleWeeks has returned: the
\* locked weeks and the new weeks are merged and sorted, every week is
\* validated, and the schedule and the history are saved unless the call is
\* a preview or a week has a validation error.
MergeAndReturn ==
  /\ pc = "idle"
  /\ weekNo = Len(weeks)
  /\ LET allSchedules ==
           SortByWeekOf(lockedWeeks(call.existingSchedule)
                        \o [i \in 1..Len(results) |-> results[i].schedule])
         hasErrors ==
           \E i \in 1..Len(allSchedules) :
             validateSchedule(allSchedules[i]) # <<>>
     IN ret' = [kind |-> "generateMonthlySchedule",
                month |-> call.month,
                schedule |-> [month |-> call.month, weeks |-> allSchedules],
                results |-> results,
                saved |-> ~call.preview /\ ~hasErrors]
  /\ pc' = "returned"
  /\ UNCHANGED <<weeks, options, history, weekNo, assignments,
                 assignedThisWeek, conflicts, warnings, posIdx, prioIdx,
                 results, call, roleTally>>

\* One week of the saved schedule file is marked locked and
\* generateMonthlySchedule is called again with the same PDFs; history is
\* what the first call saved.
RegenerateWithLockedWeek ==
  /\ pc = "returned"
  /\ ret.saved
  /\ ~call.existingSchedule.exists
  /\ \E k \in 1..Len(ret.schedule.weeks) :
       call' =
         [call EXCEPT
            !.existingSchedule =
               [exists |-> TRUE,
                month |-> ret.schedule.month,
                weeks |-> [i \in 1..Len(ret.schedule.weeks) |->
                             WithLock(ret.schedule.weeks[i], i = k)]]]
  /\ pc' = "generate"
  /\ ret' = NoRet
  /\ weeks' = <<>>
  /\ weekNo' = 0
  /\ assignments' = NoForce
  /\ assignedThisWeek' = {}
  /\ conflicts' = <<>>
  /\ warnings' = <<>>
  /\ posIdx' = 0
  /\ prioIdx' = 0
  /\ results' = <<>>
  /\ roleTally' = NoTally
  /\ UNCHANGED <<options, history>>

MonthNext ==
  \/ ScheduleMonth
  \/ BeginWeek
  \/ GreedyStep
  \/ GuaranteeStep
  \/ ReturnWeek
  \/ MergeAndReturn
  \/ RegenerateWithLockedWeek

MonthSpec == MonthInit /\ [][MonthNext]_vars

(***************************************************************************)
(* Properties of the returned role maps                                    *)
(***************************************************************************)
\* The role map of the i-th result.
RoleMap(i) == results[i].schedule.assignments

Holders(roleMap) == {roleMap[p] : p \in Positions} \ {Null}

\* The brother is written, by his full name, in a list of names.
Named(names, id) == id \in BrotherIds /\ BrotherById[id].fullName \in names

PartCount(weekData, id) ==
  IF id \in BrotherIds /\ BrotherById[id].fullName \in DOMAIN weekData.parts
    THEN weekData.parts[BrotherById[id].fullName]
    ELSE 0

OverridesNameEachPersonOnce ==
  \A p, q \in Positions :
    p # q /\ options.forceAssignments[p] # Null
      => options.forceAssignments[p] # options.forceAssignments[q]

\* C1 as stated: in every returned role map, whatever the options, no
\* person id occupies more than one role.
C1_NoPersonInTwoRoles ==
  \A i \in 1..Len(results) : \A p, q \in Positions :
    p # q /\ RoleMap(i)[p] # Null => RoleMap(i)[p] # RoleMap(i)[q]

\* C1 amended: when the manual overrides name no person for two roles, no
\* person id occupies more than one role of a returned role map.
C1_NoPersonInTwoRolesUnlessForcedTwice ==
  OverridesNameEachPersonOnce => C1_NoPersonInTwoRoles

\* A week returned with an override and all nine roles filled.
C1_Witness ==
  /\ Len(results) = 1
  /\ options.forceAssignments["rightMic"] = "cezar-macasieb"
  /\ OverridesNameEachPersonOnce
  /\ \A p \in Positions : RoleMap(1)[p] # Null
  /\ Cardinality(Holders(RoleMap(1))) = Cardinality(Positions)

\* C2 as stated: a priority brother who is eligible for at least one role
\* of a week holds some role in the role map returned for that week.
C2_GuaranteedPersonHoldsRole ==
  \A i \in 1..Len(results) : \A id \in PriorityIds :
    (\E pos \in Positions : IsAvailable(id, pos, weeks[i]))
      => id \in Holders(RoleMap(i))

XianHasMic(i) == \E p \in micPositions : RoleMap(i)[p] = "xian-salazar"

\* C3 as stated: over the role maps a batch returns, Xian holds a mic role
\* in at most one week of any calendar month.
C3_OneMicWeekPerMonth ==
  \A i, j \in 1..Len(results) :
    i < j /\ YearMonth(weeks[i].weekOf) = YearMonth(weeks[j].weekOf)
      => ~(XianHasMic(i) /\ XianHasMic(j))

\* C4 as stated: nobody in the week's unavailableForAV list holds a role
\* in the returned role map.
C4_NoBlockedPersonInMap ==
  \A i \in 1..Len(results) : \A p \in Positions :
    RoleMap(i)[p] # Null
      => ~Named(results[i].schedule.unavailable.noAV, RoleMap(i)[p])

\* C4 amended: somebody in the week's unavailableForAV list holds a role
\* of the returned role map only where a manual override put him.
C4_BlockedPersonOnlyByOverride ==
  \A i \in 1..Len(results) : \A p \in Positions :
    RoleMap(i)[p] # Null
      /\ Named(results[i].schedule.unavailable.noAV, RoleMap(i)[p])
      => options.forceAssignments[p] = RoleMap(i)[p]

\* A full week returned without a priority brother who is unavailable for AV.
C4_Witness ==
  /\ Len(results) = 1
  /\ results[1].schedule.unavailable.noAV = FullNames({"zach-lucero"})
  /\ "zach-lucero" \notin Holders(RoleMap(1))
  /\ \A p \in Positions : RoleMap(1)[p] # Null

\* C5 as stated: nobody in the week's unavailableForMic list holds a mic
\* role in the returned role map.
C5_NoMicBlockedPersonAtMic ==
  \A i \in 1..Len(results) : \A p \in micPositions :
    RoleMap(i)[p] # Null
      => ~Named(results[i].schedule.unavailable.noMic, RoleMap(i)[p])

\* C5 amended: somebody in the week's unavailableForMic list holds a mic
\* role of the returned role map only where a manual override put him.
C5_MicBlockedPersonOnlyByOverride ==
  \A i \in 1..Len(results) : \A p \in micPositions :
    RoleMap(i)[p] # Null
      /\ Named(results[i].schedule.unavailable.noMic, RoleMap(i)[p])
      => options.forceAssignments[p] = RoleMap(i)[p]

\* A week in which the only brother left for the second mic is unavailable
\* for mic: the role stays empty and he is given another role.
C5_Witness ==
  /\ Len(results) = 1
  /\ options = DefaultOptions
  /\ results[1].schedule.unavailable.noMic = FullNames({"zach-lucero"})
  /\ RoleMap(1)["rightMic"] = "xian-salazar"
  /\ RoleMap(1)["leftMic"] = Null
  /\ RoleMap(1)["frontStage"] = "zach-lucero"

Qualifies(id) ==
  id \in BrotherIds
  /\ BrotherById[id].privilege \in {"elder", "ministerial_servant"}

\* C6 as stated: the auditorium role of a returned role map is empty or
\* held by an elder or a ministerial servant.
C6_AuditoriumOnlyQualified ==
  \A i \in 1..Len(results) :
    RoleMap(i)["auditorium"] = Null \/ Qualifies(RoleMap(i)["auditorium"])

\* C6 amended: the auditorium role of a returned role map is empty, held
\* by an elder or a ministerial servant, or held by the person a manual
\* override put there.
C6_AuditoriumQualifiedUnlessOverride ==
  \A i \in 1..Len(results) :
    \/ RoleMap(i)["auditorium"] = Null
    \/ Qualifies(RoleMap(i)["auditorium"])
    \/ options.forceAssignments["auditorium"] = RoleMap(i)["auditorium"]

\* A week returned with the auditorium given to a qualified brother while
\* a publisher without restriction on it holds no role at all.
C6_Witness ==
  /\ Len(results) = 1
  /\ options.forceAssignments["auditorium"] = Null
  /\ RoleMap(1)["auditorium"] # Null
  /\ Qualifies(RoleMap(1)["auditorium"])
  /\ "xian-salazar" \notin Holders(RoleMap(1))
  /\ ~Named(results[1].schedule.unavailable.noAV, "xian-salazar")

(***************************************************************************)
(* Properties of the score and of the greedy pass                          *)
(***************************************************************************)
\* The records of a ledger that satisfy a condition, counted by index.
CountOf(ledger, Cond(_)) ==
  Cardinality({i \in 1..Len(ledger) : Cond(ledger[i])})

\* The score as the sum of its six terms.
ScoreByTerms(ledger, person, role, referenceDate, partCount) ==
  LET Age(r) == DayNumber(referenceDate) - DayNumber(r.date)
      sameRole ==
        CountOf(ledger, LAMBDA r : r.brotherId = person /\ r.position = role)
      last30 ==
        CountOf(ledger, LAMBDA r : r.brotherId = person
                                   /\ 0 <= Age(r) /\ Age(r) <= 30)
      last7 ==
        CountOf(ledger, LAMBDA r : r.brotherId = person
                                   /\ 0 <= Age(r) /\ Age(r) <= 7)
      tier == IF person \in BrotherIds
                THEN BrotherById[person].privilege ELSE "none"
  IN 10 * sameRole + 5 * last30 + 20 * last7
     + (IF partCount > 0 THEN 200 + 50 * partCount ELSE 0)
     + (CASE tier = "elder" -> 25
          [] tier = "ministerial_servant" -> 0 - 25
          [] tier = "publisher" -> 0 - 15
          [] OTHER -> 0)
     - (IF person \in {"zach-lucero", "john-mahor"}
          THEN (IF 50 - 15 * sameRole > 15 THEN 50 - 15 * sameRole ELSE 15)
          ELSE 0)

\* C7: for the ledger of every returned week, every person (of the roster
\* or not), role and part count, calculateAssignmentScore is 10 x records
\* of the role + 5 x records of the last 30 days + 20 x records of the last
\* 7 days + (200 + 50 x parts, if any) + the privilege adjustment - the
\* priority bonus max(15, 50 - 15 x records of the role).
C7_ScoreIsSumOfTerms ==
  pc = "built" =>
    \A person \in BrotherIds \cup {"visitor"} : \A role \in Positions :
      \A partCount \in 0..MaxParts :
        calculateAssignmentScore(history, person, role, week.weekOf, partCount)
          = ScoreByTerms(history, person, role, week.weekOf, partCount)

\* A ledger in which a priority brother has four records of one role (the
\* bonus is at its floor), dated 42, 14 and 7 days before and 14 days after
\* the reference date, and a record of another role of the week itself.
C7_Witness ==
  /\ pc = "built"
  /\ week.weekOf = WeekDates[1]
  /\ Len(history) > Len(PriorRecords)
  /\ SubSeq(history, 1, Len(PriorRecords)) = PriorRecords
  /\ \E i \in 1..Len(history) :
       /\ history[i].brotherId = "zach-lucero"
       /\ history[i].position # "audio"
       /\ history[i].date = week.weekOf
  /\ calculateAssignmentScore(history, "zach-lucero", "audio", week.weekOf, 1)
       = 40 + 15 + 40 + 250 - 15 - 15

\* The greedy pass is about to decide the position.
AtRole(position) ==
  /\ pc = "greedy"
  /\ posIdx <= Len(schedulingPriority)
  /\ schedulingPriority[posIdx] = position
  /\ assignments[position] = Null
  /\ position \notin options.skipPositions

PrivilegeOf(id) == BrotherById[id].privilege

\* The brothers not unavailable this week, not yet assigned, and without
\* individual restriction on the position: the pool but for the privilege.
UngatedPool(position) ==
  {id \in BrotherIds \ assignedThisWeek :
     /\ ~Named(week.unavailableForAV, id)
     /\ canBrotherDoPosition(BrotherById[id], position)}

XianMicRecordInMonth(yearMonth) ==
  \E i \in 1..Len(history) :
    /\ history[i].brotherId = "xian-salazar"
    /\ history[i].position \in {"rightMic", "leftMic"}
    /\ YearMonth(history[i].date) = yearMonth

\* The score the greedy pass sorts the brother by.
PoolScore(id, position) ==
  calculateAssignmentScore(history, id, position, week.weekOf,
                           PartCount(week, id))

\* C9: when the greedy pass decides a mic role with Xian among the
\* candidates and the ledger has a mic record of his dated in the month of
\* the week, it records a warning, gives the role to another candidate if
\* there is one, without conflict, and leaves it empty otherwise; when the
\* ledger has no such record of that month, whatever it has of other
\* months, it records no warning and Xian competes: the role goes to a
\* candidate, and to Xian if his score is lowest.
C9_QuotaExclusionIsMonthScoped ==
  [][\A position \in {"rightMic", "leftMic"} :
       AtRole(position) /\ "xian-salazar" \in Range(Candidates(position))
       => LET others == Range(Candidates(position)) \ {"xian-salazar"}
          IN IF XianMicRecordInMonth(YearMonth(week.weekOf))
               THEN /\ warnings' = Append(warnings, position)
                    /\ assignments'[position] # "xian-salazar"
                    /\ IF others # {}
                         THEN /\ assignments'[position] \in others
                              /\ conflicts' = conflicts
                         ELSE assignments'[position] = Null
               ELSE /\ warnings' = warnings
                    /\ conflicts' = conflicts
                    /\ assignments'[position] \in Range(Candidates(position))
                    /\ (\A id \in others :
                          PoolScore("xian-salazar", position)
                            < PoolScore(id, position))
                       => assignments'[position] = "xian-salazar"]_vars

\* A week returned with Xian excluded from the right mic by a record of the
\* same month: a warning, no conflict, and another brother at the mic.
C9_Witness ==
  /\ Len(results) = 1
  /\ Record("xian-salazar", "rightMic", Date(2026, 2, 13)) \in Range(history)
  /\ YearMonth(weeks[1].weekOf) = <<2026, 2>>
  /\ "rightMic" \in Range(results[1].warnings)
  /\ "rightMic" \notin Range(results[1].conflicts)
  /\ RoleMap(1)["rightMic"] \notin {Null, "xian-salazar"}

IndexIn(seq, x) == CHOOSE i \in 1..Len(seq) : seq[i] = x

\* C10: the list the greedy pass sorts comes back with the same members in
\* ascending score order, members of equal score in the order they had in
\* the pool; the role goes to the first member of the pool among those of
\* lowest score.
C10_TiesKeepInputOrder ==
  [][\A position \in Positions :
       AtRole(position)
       => LET pool == AfterPreference(position)
              sorted == SortedCandidates(position)
              scores == [id \in Range(pool) |-> PoolScore(id, position)]
          IN /\ Len(sorted) = Len(pool)
             /\ Range(sorted) = Range(pool)
             /\ \A i, j \in 1..Len(sorted) :
                  i < j =>
                    /\ scores[sorted[i]] <= scores[sorted[j]]
                    /\ scores[sorted[i]] = scores[sorted[j]]
                         => IndexIn(pool, sorted[i]) < IndexIn(pool, sorted[j])
             /\ \A i \in 1..Len(pool) :
                  /\ \A j \in 1..Len(pool) : scores[pool[i]] <= scores[pool[j]]
                  /\ \A j \in 1..(i - 1) : scores[pool[j]] # scores[pool[i]]
                  => assignments'[position] = pool[i]]_vars

\* The week returned with everybody available, no parts and an empty ledger
\* at the start: the two priority brothers tie for audio and the elders tie
\* for the auditorium, and each role went to the first of the roster.
C10_Witness ==
  /\ Len(results) = 1
  /\ options = DefaultOptions
  /\ weeks[1].unavailableForAV = {} /\ weeks[1].unavailableForMic = {}
  /\ weeks[1].parts = <<>>
  /\ Len(history) = Cardinality(Positions)
  /\ calculateAssignmentScore(<<>>, "zach-lucero", "audio", weeks[1].weekOf, 0)
       = calculateAssignmentScore(<<>>, "john-mahor", "audio",
                                  weeks[1].weekOf, 0)
  /\ RoleMap(1)["audio"] = "zach-lucero"
  /\ RoleMap(1)["video"] = "john-mahor"
  /\ RoleMap(1)["auditorium"] = "jonas-santiso"
  /\ RoleMap(1)["entrance2"] = "dandel-cabusas"

(***************************************************************************)
(* Properties of the eligibility evaluator and of the validator            *)
(***************************************************************************)
\* The six checks on a brother record, in the order of the claim, each with
\* the reason it gives.
ChecksInOrder(brother, position, weekData) ==
  LET tags == {brother.restrictions[i] : i \in 1..Len(brother.restrictions)}
      blocking ==
        {i \in 1..Len(brother.restrictions) :
           /\ brother.restrictions[i] # "mic_once_monthly"
           /\ position \in restrictionToPositions[brother.restrictions[i]]}
  IN << [fails |-> ~brother.active,
         reason |-> [kind |-> "Brother is inactive", tag |-> ""]],
        [fails |-> brother.fullName \in weekData.unavailableForAV,
         reason |-> [kind |-> "Has meeting part with no-AV constraint",
                     tag |-> ""]],
        [fails |-> position \in {"rightMic", "leftMic"}
                   /\ brother.fullName \in weekData.unavailableForMic,
         reason |-> [kind |-> "Has meeting part with no-mic constraint",
                     tag |-> ""]],
        [fails |-> blocking # {},
         reason |-> [kind |-> "Individual restriction",
                     tag |-> IF blocking = {} THEN ""
                             ELSE brother.restrictions[
                                    CHOOSE i \in blocking :
                                      \A j \in blocking : i <= j]]],
        [fails |-> position = "auditorium"
                   /\ brother.privilege \notin {"elder", "ministerial_servant"},
         reason |-> [kind |-> "Position requires Elder or MS privilege",
                     tag |-> ""]],
        [fails |-> position = "video"
                   /\ brother.id \notin videoEligibleBrotherIds,
         reason |-> [kind |-> "Video position restricted to specific elders",
                     tag |-> ""]] >>

\* C11: for a brother of the roster, isBrotherAvailableForPosition answers
\* available exactly when none of the six checks (inactive, no-AV, no-mic
\* at a mic, restriction tag other than the quota tag, privilege, video
\* subset) fails, and otherwise gives the reason of the first check, in
\* this order, that fails; for the roster as configured the answer agrees
\* with getAvailableBrothersForPosition.
C11_FirstFailingCheckGivesReason ==
  ret.kind = "availability" /\ call.brotherId \in BrotherIds =>
    LET brother ==
          call.roster[CHOOSE i \in 1..Len(call.roster) :
                        call.roster[i].id = call.brotherId]
        checks == ChecksInOrder(brother, call.position, call.week)
        failing == {i \in 1..Len(checks) : checks[i].fails}
    IN /\ ret.value.available = (failing = {})
       /\ failing # {} =>
            ret.value.reason
              = checks[CHOOSE i \in failing : \A j \in failing : i <= j].reason
       /\ call.roster = brothers =>
            ret.value.available
              = (call.brotherId \in
                   Range(Ids(getAvailableBrothersForPosition(call.position,
                                                             call.week))))

\* The call answered for an inactive publisher with a restriction on the
\* auditorium who is also named unavailable for AV: four checks fail and
\* the reason is the first.
C11_Witness ==
  /\ ret.kind = "availability"
  /\ call.brotherId = "cezar-macasieb"
  /\ call.position = "auditorium"
  /\ call.roster # brothers
  /\ ~call.roster[16].active
  /\ "Cezar Macasieb" \in call.week.unavailableForAV
  /\ ret.value = [available |-> FALSE,
                  reason |-> [kind |-> "Brother is inactive", tag |-> ""]]

\* Some name of the list names the person: a brother of the roster by the
\* rule of doesNameMatchBrother, anybody else by the id itself.
NamesPerson(names, id) ==
  \E name \in names :
    \/ name = id
    \/ id \in BrotherIds /\ doesNameMatchBrother(name, BrotherById[id])

\* The five rules of a role map.
OnePersonPerRole(schedule) ==
  \A p, q \in Positions :
    p # q /\ schedule.assignments[p] # Null
      => schedule.assignments[p] # schedule.assignments[q]

NoBlockedPerson(schedule) ==
  \A p \in Positions :
    schedule.assignments[p] # Null
      => ~NamesPerson(schedule.unavailable.noAV, schedule.assignments[p])

NoMicBlockedPersonAtMic(schedule) ==
  \A p \in {"rightMic", "leftMic"} :
    schedule.assignments[p] # Null
      => ~NamesPerson(schedule.unavailable.noMic, schedule.assignments[p])

PrivilegeHeld(schedule) ==
  schedule.assignments["auditorium"] # Null
    => Qualifies(schedule.assignments["auditorium"])

VideoFromSubset(schedule) ==
  schedule.assignments["video"] # Null
    => schedule.assignments["video"] \in videoEligibleBrotherIds

FiveInvariants(schedule) ==
  /\ OnePersonPerRole(schedule)
  /\ NoBlockedPerson(schedule)
  /\ NoMicBlockedPersonAtMic(schedule)
  /\ PrivilegeHeld(schedule)
  /\ VideoFromSubset(schedule)

UnfilledRoles(schedule) ==
  {p \in Positions : schedule.assignments[p] = Null}

\* C12: for every role map that breaks one of the five rules (a person in
\* two roles, a person blocked for AV in a role, a person blocked for the
\* mics at a mic, an unqualified person at the auditorium, a person
\* outside the video subset at video), validateSchedule returns at least
\* one violation string.
C12_EveryBrokenRuleIsReported ==
  ret.kind = "errors" /\ ~FiveInvariants(call.schedule) => ret.value # <<>>

C14_ProducedSchedulePassesValidation ==
  options = DefaultOptions =>
    \A i \in 1..Len(results) : validateSchedule(results[i].schedule) = <<>>

\* C14 amended: under the default options the violation strings of the
\* returned schedule are the "is not assigned" strings of its unfilled
\* roles, one for each, and nothing else: a schedule with every role
\* filled passes validation.
C14_ProducedScheduleFailsOnlyOnUnfilledRoles ==
  options = DefaultOptions =>
    \A i \in 1..Len(results) :
      LET errors == validateSchedule(results[i].schedule)
      IN /\ \A k \in 1..Len(errors) : errors[k].kind = "is not assigned"
         /\ {errors[k].position : k \in 1..Len(errors)}
              = UnfilledRoles(results[i].schedule)
         /\ Len(errors) = Cardinality(UnfilledRoles(results[i].schedule))

\* A week scheduled under the default options on a ledger of earlier runs,
\* with a brother away, every role filled, and no violation string.
C14_Witness ==
  /\ options = DefaultOptions
  /\ Len(results) = 1
  /\ weeks[1].unavailableForAV = FullNames({"cezar-macasieb"})
  /\ UnfilledRoles(results[1].schedule) = {}
  /\ Len(history) > Len(PriorRecords)
  /\ validateSchedule(results[1].schedule) = <<>>

(***************************************************************************)
(* Properties of the guarantee pass                                        *)
(***************************************************************************)
\* The priority brother whose turn it is in the guarantee pass.
TurnOf == priorityBrotherIds[prioIdx]

\* The turn of a priority brother who is unavailable for AV this week
\* leaves the role map, the ledger, the conflicts and the warnings alone.
BlockedTurnChangesNothing ==
  pc = "guarantee" /\ Named(week.unavailableForAV, TurnOf)
    => UNCHANGED <<assignments, assignedThisWeek, history, conflicts, warnings>>

\* C15 as stated: when a priority brother is in the week's unavailableForAV
\* list, the returned role map does not contain him, his turn in the
\* guarantee pass displaces nobody (every role keeps its holder), and no
\* conflict is recorded for him.
C15_BlockedGuaranteedPersonIsSkipped ==
  /\ [][BlockedTurnChangesNothing]_vars
  /\ [](\A i \in 1..Len(results) : \A id \in PriorityIds :
          Named(results[i].schedule.unavailable.noAV, id)
            => id \notin Holders(RoleMap(i)))

\* C15 amended: when a priority brother is in the week's unavailableForAV
\* list, his turn in the guarantee pass displaces nobody and records no
\* conflict, and the returned role map contains him only in a role a
\* manual override names him for.
C15_BlockedGuaranteedPersonOnlyByOverride ==
  /\ [][BlockedTurnChangesNothing]_vars
  /\ [](\A i \in 1..Len(results) : \A id \in PriorityIds :
          Named(results[i].schedule.unavailable.noAV, id)
            => \A p \in Positions :
                 RoleMap(i)[p] = id => options.forceAssignments[p] = id)

\* After the turn of the first priority brother, who is unavailable for AV
\* and has been left out, while every role he could otherwise take is held
\* by somebody.
C15_Witness ==
  /\ pc = "guarantee"
  /\ prioIdx = 2
  /\ Named(week.unavailableForAV, "zach-lucero")
  /\ "zach-lucero" \notin assignedThisWeek
  /\ \A p \in Positions : assignments[p] # Null
  /\ conflicts = <<>>

OpenEligibleRoles(id) ==
  {p \in Positions : IsAvailable(id, p, week) /\ assignments[p] = Null}

\* The occupied roles the brother is eligible for whose holder is no
\* priority brother.
SwapTargets(id) ==
  {p \in Positions :
     /\ IsAvailable(id, p, week)
     /\ assignments[p] # Null
     /\ assignments[p] \notin PriorityIds}

\* C17: in the guarantee pass, a priority brother without a role who is
\* eligible for an unoccupied role, while no occupied role he is eligible
\* for is held by a non-priority brother, is assigned to an unoccupied role
\* he is eligible for, and nobody is displaced.
C17_OpenRoleIsTakenDirectly ==
  [][pc = "guarantee"
       /\ TurnOf \notin assignedThisWeek
       /\ OpenEligibleRoles(TurnOf) # {}
       /\ SwapTargets(TurnOf) = {}
     => \E p \in OpenEligibleRoles(TurnOf) :
          assignments' = [assignments EXCEPT ![p] = TurnOf]]_vars

\* C18: in one scheduleWeek call the greedy pass visits every role exactly
\* once, and the guarantee pass, over all priority brothers, swaps and
\* re-housings, changes the occupant of any role at most once.
C18_OneDecisionAndOneReassignmentPerRole ==
  /\ pc \in {"guarantee", "built"}
       => \A p \in Positions : roleTally.visits[p] = 1
  /\ \A p \in Positions : roleTally.changes[p] <= 1

\* The ledger score of the holder of an occupied role, as the guarantee
\* pass computes it (no part count).
HolderScore(position) ==
  calculateAssignmentScore(history, assignments[position], position,
                           week.weekOf, 0)

\* C19: the priority brothers are taken in the order of priorityBrotherIds;
\* one who has no role yet takes over, among the occupied roles he is
\* eligible for whose holder is no priority brother, a role whose holder
\* has the highest ledger score; one who has a role already takes none;
\* and no role held by a priority brother changes its holder.
C19_HighestScoredHolderIsDisplaced ==
  [][pc = "guarantee" =>
       /\ prioIdx' = prioIdx + 1
       /\ TurnOf \notin assignedThisWeek /\ SwapTargets(TurnOf) # {}
            => \E p \in SwapTargets(TurnOf) :
                 /\ assignments'[p] = TurnOf
                 /\ \A q \in SwapTargets(TurnOf) :
                      HolderScore(q) <= HolderScore(p)
       /\ TurnOf \in assignedThisWeek => assignments' = assignments
       /\ \A p \in Positions :
            assignments[p] \in PriorityIds => assignments'[p] = assignments[p]]_vars

\* After the second priority brother's turn under the default options: the
\* first holds a role, the second has taken over a role in the guarantee
\* pass, and every role is filled, so that he had holders to choose from.
C19_Witness ==
  /\ pc = "built"
  /\ options = DefaultOptions
  /\ "zach-lucero" \in Holders(assignments)
  /\ \E p \in Positions :
       assignments[p] = "john-mahor" /\ roleTally.changes[p] = 1
  /\ \A p \in Positions : assignments[p] # Null

\* The roles whose occupant the guarantee pass has changed this week.
ChangedRoles == {p \in Positions : roleTally.changes[p] > 0}

\* C20: when a turn of the guarantee pass displaces the holder of a role,
\* the displaced brother is given the last role of schedulingPriority that
\* is unfilled after the swap and that he is eligible for, and a ledger
\* record of that role is added for him; if there is no such role he is
\* given none, and in both cases the conflicts stay as they were.  A
\* non-priority brother without a role before a turn has none after it.
C20_DisplacedIsReHousedFromTheEnd ==
  [][pc = "guarantee" =>
       /\ conflicts' = conflicts
       /\ \A id \in BrotherIds \ PriorityIds :
            id \notin Holders(assignments) => id \notin Holders(assignments')
       /\ \A p \in Positions :
            assignments[p] # Null /\ assignments'[p] # assignments[p] =>
              LET displaced == assignments[p]
                  after == [assignments EXCEPT ![p] = TurnOf]
                  open == {i \in 1..Len(schedulingPriority) :
                             /\ after[schedulingPriority[i]] = Null
                             /\ IsAvailable(displaced, schedulingPriority[i],
                                            week)}
                  target ==
                    schedulingPriority[CHOOSE i \in open :
                                         \A j \in open : j <= i]
              IN IF open = {}
                   THEN /\ assignments' = after
                        /\ displaced \notin assignedThisWeek'
                   ELSE /\ assignments' = [after EXCEPT ![target] = displaced]
                        /\ displaced \in assignedThisWeek'
                        /\ history' # <<>>
                        /\ history'[Len(history')]
                             = Record(displaced, target, week.weekOf)]_vars

\* After the first priority brother's turn under the default options: he
\* has taken over a role, and the brother he displaced holds a role that
\* was unfilled, the last ledger record is his, and roles later in
\* schedulingPriority, which he is not eligible for, are still unfilled.
C20_Witness ==
  /\ pc = "guarantee"
  /\ prioIdx = 2
  /\ options = DefaultOptions
  /\ \E p, t \in ChangedRoles :
       /\ assignments[p] = "zach-lucero"
       /\ assignments[t] \notin PriorityIds
       /\ history[Len(history)] = Record(assignments[t], t, week.weekOf)
       /\ \E q \in Positions :
            /\ IndexIn(schedulingPriority, q) > IndexIn(schedulingPriority, t)
            /\ assignments[q] = Null
            /\ ~IsAvailable(assignments[t], q, week)

(***************************************************************************)
(* Properties of the greedy pass, the overrides and the ledger             *)
(***************************************************************************)
\* C21: when the greedy pass decides a role (one neither forced nor
\* skipped) whose pool, after quota exclusion and preference narrowing, is
\* empty, it appends one conflict entry for the role, leaves the role
\* unfilled and goes on to the next role; when the pool is not empty it
\* gives the role to a member of the pool of lowest score and appends no
\* conflict entry.  No role is named twice in the conflicts of a week.
C21_EmptyPoolGivesConflictElseLowestScore ==
  /\ [][\A position \in Positions :
          AtRole(position)
          => LET pool == Range(AfterPreference(position))
             IN /\ posIdx' = posIdx + 1
                /\ pc' \in {"greedy", "guarantee"}
                /\ \A q \in Positions \ {position} :
                     assignments'[q] = assignments[q]
                /\ IF pool = {}
                     THEN /\ conflicts' = Append(conflicts, position)
                          /\ assignments'[position] = Null
                     ELSE /\ conflicts' = conflicts
                          /\ assignments'[position] \in pool
                          /\ \A id \in pool :
                               PoolScore(assignments'[position], position)
                                 <= PoolScore(id, position)]_vars
  /\ [](\A i, j \in 1..Len(conflicts) :
          conflicts[i] = conflicts[j] => i = j)

\* A week returned under the default options with a conflict for a role
\* that is unfilled, and a role later in the priority order that the
\* greedy pass filled afterwards.
C21_Witness ==
  /\ Len(results) = 1
  /\ options = DefaultOptions
  /\ \E p, q \in Positions :
       /\ IndexIn(schedulingPriority, p) < IndexIn(schedulingPriority, q)
       /\ p \in Range(results[1].conflicts)
       /\ RoleMap(1)[p] = Null
       /\ RoleMap(1)[q] # Null
       /\ roleTally.changes[q] = 0

\* C22: whenever the pool of a role the greedy pass decides holds a brother
\* without parts this week and a brother with parts, the role goes to a
\* brother without parts, whatever the ledger.
C22_NoPartsBeforeParts ==
  [][\A position \in Positions :
       AtRole(position)
       => LET pool == Range(AfterPreference(position))
          IN (\E a, b \in pool :
                PartCount(week, a) = 0 /\ PartCount(week, b) > 0)
             => PartCount(week, assignments'[position]) = 0]_vars

\* C23: scheduleMultipleWeeks takes the weeks one after the other in input
\* order and never resets the ledger between them; the results so far are
\* one for each week taken, in the same order; and the ledger a week is
\* scored against holds, for every earlier week of the batch, the record of
\* each holder of its returned role map.
C23_WeeksInOrderOnOneLedger ==
  /\ [][pc = "idle" => weekNo' = weekNo + 1 /\ history' = history]_vars
  /\ [][pc = "built" => Len(results') = weekNo /\ history' = history]_vars
  /\ [](/\ Len(results) = IF pc = "idle" THEN weekNo ELSE weekNo - 1
        /\ pc = "idle" /\ weekNo = 0 => results = <<>>
        /\ \A i \in 1..Len(results) :
             /\ results[i].schedule.weekOf = weeks[i].weekOf
             /\ \A p \in Positions :
                  RoleMap(i)[p] # Null
                    => Record(RoleMap(i)[p], p, weeks[i].weekOf)
                         \in Range(history))

\* A batch of two weeks with everybody available, returned: the ledger
\* holds both weeks' records, and audio went to another brother in the
\* second week than in the first.
C23_Witness ==
  /\ Len(weeks) = 2
  /\ Len(results) = 2
  /\ weeks[1].unavailableForAV = {} /\ weeks[2].unavailableForAV = {}
  /\ weeks[1].parts = <<>> /\ weeks[2].parts = <<>>
  /\ Len(history) = 2 * Cardinality(Positions)
  /\ RoleMap(1)["audio"] # RoleMap(2)["audio"]

\* C24: in every returned role map, whatever the week, the ledger and the
\* options, each role with a manual override holds the brother the
\* override names, and that brother holds no role without an override
\* naming him for it.
C24_OverridesAreKept ==
  \A i \in 1..Len(results) : \A p \in Positions :
    options.forceAssignments[p] # Null
      => /\ RoleMap(i)[p] = options.forceAssignments[p]
         /\ \A q \in Positions :
              RoleMap(i)[q] = options.forceAssignments[p]
                => options.forceAssignments[q] = options.forceAssignments[p]

\* C25: when the greedy pass decides audio or video with a preference list
\* of which some member of the pool (after quota exclusion) is part, the
\* role goes to a member of the pool on the list, of lowest score among
\* those; with no pool member on the list, and for every other role, the
\* role goes to whom it would go without a preference list: the first of
\* the pool sorted by score, or nobody if the pool is empty.
C25_PreferenceNarrowsAudioAndVideoOnly ==
  [][\A position \in Positions :
       AtRole(position)
       => LET pool == AfterQuota(position)
              onList == Range(pool) \cap options.preferredAudioVideo
              unnarrowed ==
                sortBrothersByFairness(pool, history, position, week.weekOf,
                                       meetingPartCounts)
          IN IF position \in {"audio", "video"} /\ onList # {}
               THEN /\ assignments'[position] \in onList
                    /\ \A id \in onList :
                         PoolScore(assignments'[position], position)
                           <= PoolScore(id, position)
             ELSE IF pool = <<>>
               THEN assignments'[position] = Null
             ELSE assignments'[position] = unnarrowed[1]]_vars

\* A week returned with everybody available, no parts, an empty ledger at
\* the start and a preference list of two: audio went to the lower-scored
\* of the two although a priority brother scores lower, and video, for
\* which neither of the two was left in the pool, went to that priority
\* brother.
C25_Witness ==
  /\ Len(results) = 1
  /\ options.preferredAudioVideo = {"jayr-sullano", "jonas-santiso"}
  /\ weeks[1].unavailableForAV = {} /\ weeks[1].parts = <<>>
  /\ Len(history) = Cardinality(Positions)
  /\ calculateAssignmentScore(<<>>, "zach-lucero", "audio", weeks[1].weekOf, 0)
       < calculateAssignmentScore(<<>>, "jayr-sullano", "audio",
                                  weeks[1].weekOf, 0)
  /\ RoleMap(1)["audio"] = "jayr-sullano"
  /\ RoleMap(1)["video"] = "zach-lucero"

\* The ledgers the single-week runs start from.
StartLedgers ==
  HistoryChoices \cup {LongLedger, OverrideAfterLastWeek.history}

\* The records of the ledger dated the day, in ledger order, and the others.
RecordsDated(date) == SelectSeq(history, LAMBDA r : r.date = date)

RecordsNotDated(date) == SelectSeq(history, LAMBDA r : r.date # date)

\* The single scheduleWeek call has returned, and the ledger it started
\* from, which is what the ledger holds of other dates, had no record
\* dated the week.
ReturnedFromCleanStart ==
  /\ Len(weeks) = 1 /\ Len(results) = 1
  /\ RecordsNotDated(weeks[1].weekOf) \in StartLedgers

\* The ledger's records of the week are one (holder, role, week) for each
\* of the roles, and nothing else.
WeekRecordsAre(roles) ==
  LET ofWeek == RecordsDated(weeks[1].weekOf)
  IN /\ Range(ofWeek)
          = {Record(RoleMap(1)[p], p, weeks[1].weekOf) : p \in roles}
     /\ Len(ofWeek) = Cardinality(roles)

\* C26 as stated: when scheduleWeek starts from a ledger without record
\* dated the week, on return the ledger's records dated the week are one
\* record (holder, role, week) for each filled role of the returned map
\* and nothing else.
C26_LedgerHoldsEveryFilledRole ==
  ReturnedFromCleanStart
    => WeekRecordsAre({p \in Positions : RoleMap(1)[p] # Null})

\* C26 amended: when scheduleWeek starts from a ledger without record dated
\* the week, on return the ledger's records dated the week are one record
\* (holder, role, week) for each filled role of the returned map whose
\* holder is not the one a manual override names for it, and nothing else:
\* a role filled by an override has no record.
C26_LedgerHoldsEveryRoleTheEngineFilled ==
  ReturnedFromCleanStart
    => WeekRecordsAre({p \in Positions :
                         /\ RoleMap(1)[p] # Null
                         /\ RoleMap(1)[p] # options.forceAssignments[p]})

\* A week returned from a ledger of earlier runs without record of the
\* week, with a role held by the brother an override names and a role a
\* priority brother took over in the guarantee pass.
C26_Witness ==
  /\ ReturnedFromCleanStart
  /\ RecordsNotDated(weeks[1].weekOf) = PriorRecords
  /\ \E p \in Positions : options.forceAssignments[p] = RoleMap(1)[p]
                            /\ RoleMap(1)[p] # Null
  /\ \E p \in ChangedRoles : RoleMap(1)[p] \in PriorityIds

\* C27: every role named in the conflicts scheduleWeek returns is unfilled
\* in the returned role map.
C27_ConflictRolesAreUnfilled ==
  \A i \in 1..Len(results) :
    \A k \in 1..Len(results[i].conflicts) :
      RoleMap(i)[results[i].conflicts[k]] = Null

\* C28: a role listed in skipPositions for which no manual override is given
\* is unfilled in the role map scheduleWeek returns.
C28_SkippedRolesStayUnfilled ==
  \A i \in 1..Len(results) :
    \A p \in options.skipPositions :
      options.forceAssignments[p] = Null => RoleMap(i)[p] = Null

\* The ledger without its index-th record.
WithoutIndex(ledger, index) ==
  [k \in 1..(Len(ledger) - 1) |->
     IF k < index THEN ledger[k] ELSE ledger[k + 1]]

\* The ledger without the first record of the brother, role and date, or
\* the ledger itself when it has no such record.
WithoutFirstMatch(ledger, brotherId, position, date) ==
  LET matches == {i \in 1..Len(ledger) :
                    ledger[i] = Record(brotherId, position, date)}
  IN IF matches = {} THEN ledger
     ELSE WithoutIndex(ledger, CHOOSE i \in matches : \A j \in matches : i <= j)

\* The roles whose holder is replaced in the step.
DisplacedRoles ==
  {p \in Positions : assignments[p] # Null /\ assignments'[p] # assignments[p]}

\* later is start followed by at most most records, all dated date.
ExtendsWithRecordsDated(later, start, date, most) ==
  /\ Len(later) \in Len(start)..(Len(start) + most)
  /\ SubSeq(later, 1, Len(start)) = start
  /\ \A k \in (Len(start) + 1)..Len(later) : later[k].date = date

\* C29: scheduleWeek changes the ledger only in records dated the week: the
\* records of other dates stay, in their order; a step that displaces nobody
\* only appends; a displacement removes the first record of the displaced
\* brother, the role and the week, if there is one, and no other record.
C29_OnlyWeekRecordsChange ==
  [][/\ pc = "idle" => history' = history
     /\ pc = "built" => history' = history
     /\ pc \in {"greedy", "guarantee"} =>
          /\ SelectSeq(history', LAMBDA r : r.date # weeks[weekNo].weekOf)
               = SelectSeq(history, LAMBDA r : r.date # weeks[weekNo].weekOf)
          /\ Cardinality(DisplacedRoles) <= 1
          /\ DisplacedRoles = {} =>
               ExtendsWithRecordsDated(history', history,
                                       weeks[weekNo].weekOf, 1)
          /\ \A p \in DisplacedRoles :
               ExtendsWithRecordsDated(
                 history',
                 WithoutFirstMatch(history, assignments[p], p,
                                   weeks[weekNo].weekOf),
                 weeks[weekNo].weekOf, 2)]_vars

\* scheduleWeek has returned for a week the ledger already had a record of:
\* Xian Salazar was put at frontStage again and displaced by Zach Lucero;
\* the earlier of his two frontStage records of the week is gone, the later
\* one and the record of the week before are still there.
C29_Witness ==
  /\ Len(results) = 1
  /\ weeks \in WeekScheduledBefore.weeks
  /\ RoleMap(1)["frontStage"] = "zach-lucero"
  /\ Len(history) > 1
  /\ history[1] = Record("xian-salazar", "rightMic", Date(2026, 2, 13))
  /\ RecordsNotDated(weeks[1].weekOf) = <<history[1]>>
  /\ Cardinality({i \in 1..Len(history) :
                    history[i] = Record("xian-salazar", "frontStage",
                                        weeks[1].weekOf)}) = 1

\* The weeks of the monthly schedule in which Xian Salazar holds a
\* microphone role.
XianMicWeeks(schedule) ==
  {i \in 1..Len(schedule.weeks) :
     \E p \in micPositions : schedule.weeks[i].assignments[p] = "xian-salazar"}

\* C30: in the monthly schedule generateMonthlySchedule returns, locked
\* weeks merged with the newly scheduled weeks, Xian Salazar holds a
\* microphone role in at most one week.
C30_QuotaHoldsInMergedMonth ==
  ret.kind = "generateMonthlySchedule" =>
    Cardinality(XianMicWeeks(ret.schedule)) <= 1

====
